---- MODULE Spec2Model ----
(***************************************************************************)
(* Model of ifj2017/interpreter/instruction.py: the dispatch table         *)
(* Instruction._commands, the operator wrappers and Instruction.run,       *)
(* executed by the interpreter loop against an execution State.            *)
(*                                                                         *)
(* State, Operand and InstructionPrices live in sibling modules of the     *)
(* package (state.py, operand.py, prices.py); their operations are         *)
(* modelled from the specification.  Python's operator module and the      *)
(* indexing of str are modelled by what CPython 3 does.                    *)
(***************************************************************************)
EXTENDS Integers, Sequences, FiniteSets, TLC

VARIABLES program, state, fault, hist, pending

vars == <<program, state, fault, hist, pending>>

(***************************************************************************)
(* Bounds of the model.                                                    *)
(***************************************************************************)
MaxInt == 2          \* integer literals range over -MaxInt..MaxInt
MaxCtlLen == 4       \* length of the enumerated control-flow programs
MaxFrameLen == 4     \* length of the enumerated frame programs
MaxDepth == 2        \* recursion depth of the self-calling program
MaxSteps == 30       \* instructions executed in one run

(***************************************************************************)
(* Values.  A value is a record with the same fields for every type:       *)
(* t is the Python type, n/d the numerator and denominator of a number     *)
(* (d = 1 for int and bool), s the characters of a str.  A float is        *)
(* modelled by the exact rational it denotes.  A raised exception          *)
(* is carried as a value of type "exc".                                    *)
(***************************************************************************)
Val(t, n, d, s) == [t |-> t, n |-> n, d |-> d, s |-> s]

Abs(x) == IF x < 0 THEN -x ELSE x

RECURSIVE GCD(_, _)
GCD(a, b) == IF b = 0 THEN a ELSE GCD(b, a % b)

IntV(n) == Val("int", n, 1, <<>>)

FloatV(n, d) ==
  LET sn == IF d < 0 THEN -n ELSE n
      sd == Abs(d)
      g  == GCD(Abs(sn), sd)
  IN Val("float", sn \div g, sd \div g, <<>>)

StrV(s) == Val("str", 0, 1, s)

BoolV(b) == Val("bool", IF b THEN 1 ELSE 0, 1, <<>>)

None == Val("nil", 0, 1, <<>>)

Exc(e) == Val("exc", 0, 1, <<e>>)

IsExc(v) == v.t = "exc"

ExcName(v) == v.s[1]

IsNum(v) == v.t \in {"int", "bool", "float"}

IsIntegral(v) == v.t \in {"int", "bool"}

\* the result type of a binary arithmetic operator on two numbers
NumResult(a, b, n, d) ==
  IF a.t = "float" \/ b.t = "float" THEN FloatV(n, d) ELSE IntV(n \div d)

\* ord() of the characters the model uses
ord(c) == CASE c = "a" -> 97 [] c = "b" -> 98 [] OTHER -> 99

RECURSIVE Repeat(_, _)
Repeat(s, k) == IF k <= 0 THEN <<>> ELSE s \o Repeat(s, k - 1)

RECURSIVE SeqLess(_, _)
SeqLess(x, y) ==
  IF y = <<>> THEN FALSE
  ELSE IF x = <<>> THEN TRUE
  ELSE IF ord(Head(x)) # ord(Head(y)) THEN ord(Head(x)) < ord(Head(y))
  ELSE SeqLess(Tail(x), Tail(y))

\* bitwise and / or of Python ints (two's complement of unbounded width)
RECURSIVE BitAnd(_, _)
BitAnd(a, b) ==
  IF a = 0 \/ b = 0 THEN 0
  ELSE IF a = -1 THEN b
  ELSE IF b = -1 THEN a
  ELSE 2 * BitAnd(a \div 2, b \div 2) + (a % 2) * (b % 2)

RECURSIVE BitOr(_, _)
BitOr(a, b) ==
  IF a = 0 THEN b
  ELSE IF b = 0 THEN a
  ELSE IF a = -1 \/ b = -1 THEN -1
  ELSE 2 * BitOr(a \div 2, b \div 2)
       + (IF (a % 2) + (b % 2) > 0 THEN 1 ELSE 0)

(***************************************************************************)
(* Python's operator module, as the dispatch table uses it.                *)
(***************************************************************************)
add(a, b) ==
  IF IsNum(a) /\ IsNum(b)
    THEN NumResult(a, b, a.n * b.d + b.n * a.d, a.d * b.d)
  ELSE IF a.t = "str" /\ b.t = "str" THEN StrV(a.s \o b.s)
  ELSE Exc("TypeError")

sub(a, b) ==
  IF IsNum(a) /\ IsNum(b)
    THEN NumResult(a, b, a.n * b.d - b.n * a.d, a.d * b.d)
  ELSE Exc("TypeError")

mul(a, b) ==
  IF IsNum(a) /\ IsNum(b) THEN NumResult(a, b, a.n * b.n, a.d * b.d)
  ELSE IF a.t = "str" /\ IsIntegral(b) THEN StrV(Repeat(a.s, b.n))
  ELSE IF IsIntegral(a) /\ b.t = "str" THEN StrV(Repeat(b.s, a.n))
  ELSE Exc("TypeError")

\* a division that follows IEEE 754: a zero divisor yields an infinity,
\* carried as a float with denominator 0
truediv_ieee(a, b) ==
  IF IsNum(a) /\ IsNum(b)
    THEN IF b.n = 0 THEN Val("float", 1, 0, <<>>)
         ELSE FloatV(a.n * b.d, a.d * b.n)
  ELSE Exc("TypeError")

truediv(a, b) ==
  IF IsNum(a) /\ IsNum(b)
    THEN IF b.n = 0 THEN Exc("ZeroDivisionError")
         ELSE FloatV(a.n * b.d, a.d * b.n)
  ELSE Exc("TypeError")

lt(a, b) ==
  IF IsNum(a) /\ IsNum(b) THEN BoolV(a.n * b.d < b.n * a.d)
  ELSE IF a.t = "str" /\ b.t = "str" THEN BoolV(SeqLess(a.s, b.s))
  ELSE Exc("TypeError")

gt(a, b) ==
  IF IsNum(a) /\ IsNum(b) THEN BoolV(a.n * b.d > b.n * a.d)
  ELSE IF a.t = "str" /\ b.t = "str" THEN BoolV(SeqLess(b.s, a.s))
  ELSE Exc("TypeError")

eq(a, b) ==
  IF IsNum(a) /\ IsNum(b) THEN BoolV(a.n * b.d = b.n * a.d)
  ELSE IF a.t = "str" /\ b.t = "str" THEN BoolV(a.s = b.s)
  ELSE BoolV(a.t = "nil" /\ b.t = "nil")

and_(a, b) ==
  IF a.t = "bool" /\ b.t = "bool" THEN BoolV(a.n = 1 /\ b.n = 1)
  ELSE IF IsIntegral(a) /\ IsIntegral(b) THEN IntV(BitAnd(a.n, b.n))
  ELSE Exc("TypeError")

or_(a, b) ==
  IF a.t = "bool" /\ b.t = "bool" THEN BoolV(a.n = 1 \/ b.n = 1)
  ELSE IF IsIntegral(a) /\ IsIntegral(b) THEN IntV(BitOr(a.n, b.n))
  ELSE Exc("TypeError")

\* Python's `not x`: the negation of the truth value of any object
not_(a) ==
  BoolV(CASE IsNum(a) -> a.n = 0
          [] a.t = "str" -> a.s = <<>>
          [] OTHER -> TRUE)

\* str[index]: an int below zero counts from the end of the string
getitem(string, index) ==
  IF string.t # "str" THEN Exc("TypeError")
  ELSE IF ~IsIntegral(index) THEN Exc("TypeError")
  ELSE LET len == Len(string.s)
           i   == IF index.n < 0 THEN index.n + len ELSE index.n
       IN IF i < 0 \/ i >= len THEN Exc("IndexError")
          ELSE StrV(<<string.s[i + 1]>>)

ord_(v) ==
  IF IsExc(v) THEN v
  ELSE IF v.t = "str" /\ Len(v.s) = 1 THEN IntV(ord(v.s[1]))
  ELSE Exc("TypeError")

apply(operator_, a, b) ==
  CASE operator_ = "add" -> add(a, b)
    [] operator_ = "sub" -> sub(a, b)
    [] operator_ = "mul" -> mul(a, b)
    [] operator_ = "truediv" -> truediv(a, b)
    [] operator_ = "lt" -> lt(a, b)
    [] operator_ = "gt" -> gt(a, b)
    [] operator_ = "eq" -> eq(a, b)
    [] operator_ = "and_" -> and_(a, b)
    [] operator_ = "or_" -> or_(a, b)

(***************************************************************************)
(* Operand (operand.py): a typed constant, a variable address             *)
(* (frame qualifier and name) or a label name.                             *)
(***************************************************************************)
Operand(kind, fr, name, val) ==
  [kind |-> kind, frame |-> fr, name |-> name, val |-> val]

Const(v) == Operand("const", "", "", v)

Var(fr, name) == Operand("var", fr, name, None)

Label(name) == Operand("label", "", name, None)

\* Instruction.__init__: the upper-cased mnemonic and the operands present
Instruction(name, ops) == [name |-> name, ops |-> ops]

(***************************************************************************)
(* State (state.py).  A frame is a function from the declared names to     *)
(* their values.  shared holds the indexes of the local frames that are    *)
(* the very object the temporary frame is: what is written to or cleared   *)
(* in one of them is written to or cleared in all.                         *)
(***************************************************************************)
EmptyFrame == [n \in {} |-> None]

InitState ==
  [global_frame |-> EmptyFrame,
   temp_frame |-> EmptyFrame,
   frame_stack |-> <<>>,
   data_stack |-> <<>>,
   call_stack |-> <<>>,
   program_counter |-> 1,
   instruction_price |-> 0,
   executed_instructions |-> 0,
   stdout |-> <<>>,
   shared |-> {}]

Top(s) == s[Len(s)]

Pop(s) == SubSeq(s, 1, Len(s) - 1)

\* the result of a command: the state it leaves, the exception it raised
\* ("none" when it returned) and whether it redirected the pointer
Ok(s) == [state |-> s, exc |-> "none", redirected |-> FALSE]

Raise(s, e) == [state |-> s, exc |-> e, redirected |-> FALSE]

Redirect(s) == [state |-> s, exc |-> "none", redirected |-> TRUE]

HasFrame(s, op) == op.frame # "LF" \/ s.frame_stack # <<>>

frame(s, op) ==
  CASE op.frame = "GF" -> s.global_frame
    [] op.frame = "TF" -> s.temp_frame
    [] OTHER -> Top(s.frame_stack)

Declared(s, op) == HasFrame(s, op) /\ op.name \in DOMAIN frame(s, op)

Bind(f, name, v) ==
  [n \in DOMAIN f \cup {name} |-> IF n = name THEN v ELSE f[n]]

\* the local frames after name was bound in the temporary frame's object
BindShared(s, name, v) ==
  [i \in DOMAIN s.frame_stack |->
     IF i \in s.shared THEN Bind(s.frame_stack[i], name, v)
     ELSE s.frame_stack[i]]

store(s, op, v) ==
  CASE op.frame = "GF" ->
         [s EXCEPT !.global_frame = Bind(@, op.name, v)]
    [] op.frame = "TF"
         \/ (op.frame = "LF" /\ Len(s.frame_stack) \in s.shared) ->
         [s EXCEPT !.temp_frame = Bind(@, op.name, v),
                   !.frame_stack = BindShared(s, op.name, v)]
    [] OTHER ->
         [s EXCEPT !.frame_stack[Len(s.frame_stack)] = Bind(@, op.name, v)]

\* a constant resolves to itself, a variable through its frame; reading a
\* name that was never declared is a fault
get_value(s, op) ==
  IF op.kind = "const" THEN op.val
  ELSE IF op.kind # "var" THEN Exc("TypeError")
  ELSE IF ~HasFrame(s, op) THEN Exc("IndexError")
  ELSE IF ~Declared(s, op) THEN Exc("KeyError")
  ELSE frame(s, op)[op.name]

\* a write primitive that binds the name whether or not it was declared
set_value_binding(s, op, value) ==
  IF op.kind # "var" THEN Raise(s, "TypeError")
  ELSE IF ~HasFrame(s, op) THEN Raise(s, "IndexError")
  ELSE Ok(store(s, op, value))

\* writing to a constant is a fault; writing None declares the variable
\* (the only write DEFVAR makes); any other write to a name that was never
\* declared in the addressed frame is a fault
set_value(s, op, value) ==
  IF op.kind # "var" THEN Raise(s, "TypeError")
  ELSE IF ~HasFrame(s, op) THEN Raise(s, "IndexError")
  ELSE IF value # None /\ ~Declared(s, op) THEN Raise(s, "KeyError")
  ELSE Ok(store(s, op, value))

\* write of a computed value: an exception raised while computing it
\* propagates before set_value is entered
set_result(s, op, value) ==
  IF IsExc(value) THEN Raise(s, ExcName(value)) ELSE set_value(s, op, value)

\* State.move: MOVE writes the value of its source into its destination
move(s, op0, op1) ==
  LET value == get_value(s, op1)
  IN IF IsExc(value) THEN Raise(s, ExcName(value))
     ELSE IF op0.kind = "var" /\ HasFrame(s, op0) /\ ~Declared(s, op0)
       THEN Raise(s, "KeyError")
     ELSE set_value(s, op0, value)

\* State.push_stack with a value
push_stack(s, value) ==
  IF IsExc(value) THEN Raise(s, ExcName(value))
  ELSE Ok([s EXCEPT !.data_stack = Append(@, value)])

\* State.pop_stack: the value it returns, and the state it leaves
pop_value(s) ==
  IF s.data_stack = <<>> THEN Exc("IndexError") ELSE Top(s.data_stack)

pop_state(s) ==
  IF s.data_stack = <<>> THEN s ELSE [s EXCEPT !.data_stack = Pop(@)]

\* State.pop_stack with a destination operand (POPS)
pop_stack(s, op) ==
  LET value == pop_value(s)
  IN IF IsExc(value) THEN Raise(s, ExcName(value))
     ELSE IF op.kind = "var" /\ HasFrame(s, op) /\ ~Declared(s, op)
       THEN Raise(pop_state(s), "KeyError")
     ELSE set_value(pop_state(s), op, value)

\* State.pop_frame: the top local frame becomes the temporary frame
pop_frame(s) ==
  IF s.frame_stack = <<>> THEN Raise(s, "IndexError")
  ELSE Ok([s EXCEPT !.temp_frame = Top(s.frame_stack),
                    !.frame_stack = Pop(@),
                    !.shared = IF Len(s.frame_stack) \in @
                                 THEN @ \ {Len(s.frame_stack)} ELSE {}])

\* the label table: built before execution from the LABEL instructions
IsLabelAt(prog, i, name) ==
  /\ prog[i].name = "LABEL"
  /\ Len(prog[i].ops) = 1
  /\ prog[i].ops[1].name = name

LabelDefined(prog, name) == \E i \in 1..Len(prog) : IsLabelAt(prog, i, name)

LabelIndex(prog, name) == CHOOSE i \in 1..Len(prog) : IsLabelAt(prog, i, name)

NoDuplicateLabels(prog) ==
  \A i, j \in 1..Len(prog) :
    (prog[i].name = "LABEL" /\ prog[j].name = "LABEL"
       /\ prog[i].ops = prog[j].ops) => i = j

\* State.jump: the pointer goes to the label's instruction
jump(prog, s, op) ==
  IF ~LabelDefined(prog, op.name) THEN Raise(s, "KeyError")
  ELSE Redirect([s EXCEPT !.program_counter = LabelIndex(prog, op.name)])

\* State.call: push the successor of the CALL, then jump
call(prog, s, op) ==
  jump(prog, [s EXCEPT !.call_stack = Append(@, s.program_counter + 1)], op)

\* State.return_: pop the call stack and jump there
return_(s) ==
  IF s.call_stack = <<>> THEN Raise(s, "IndexError")
  ELSE Redirect([s EXCEPT !.program_counter = Top(s.call_stack),
                          !.call_stack = Pop(@)])

\* State.jump_if on two values: jump when they are (not) equal; values of
\* different non-Nil types do not compare
jump_if(prog, s, op0, left, right, positive) ==
  IF IsExc(left) THEN Raise(s, ExcName(left))
  ELSE IF IsExc(right) THEN Raise(s, ExcName(right))
  ELSE IF left.t # right.t /\ left.t # "nil" /\ right.t # "nil"
    THEN Raise(s, "TypeError")
  ELSE IF (eq(left, right) = BoolV(TRUE)) = positive THEN jump(prog, s, op0)
  ELSE Ok(s)

\* Operand.CONSTANT_MAPPING_REVERSE: the type tag of a value's Python type
CONSTANT_MAPPING_REVERSE(v) ==
  CASE v.t = "int" -> StrV(<<"i", "n", "t">>)
    [] v.t = "float" -> StrV(<<"f", "l", "o", "a", "t">>)
    [] v.t = "str" -> StrV(<<"s", "t", "r", "i", "n", "g">>)
    [] v.t = "bool" -> StrV(<<"b", "o", "o", "l">>)
    [] OTHER -> None

(***************************************************************************)
(* instruction.py: the operator wrappers and the dispatch table.           *)
(* Every command takes the state and the operand list of the instruction   *)
(* and yields the outcome of the call.                                     *)
(***************************************************************************)
_unknown_command(s, ops) == Ok(s)

_operator_command(operator_, s, ops) ==
  LET left  == get_value(s, ops[2])
      right == get_value(s, ops[3])
  IN IF IsExc(left) THEN Raise(s, ExcName(left))
     ELSE IF IsExc(right) THEN Raise(s, ExcName(right))
     ELSE set_result(s, ops[1], apply(operator_, left, right))

\* a stack wrapper that reads its left operand without popping it
_operator_stack_command_peek(operator_, s, ops) ==
  LET op2 == pop_value(s)
      s1  == pop_state(s)
      op1 == pop_value(s1)
  IN IF IsExc(op2) THEN Raise(s, ExcName(op2))
     ELSE IF IsExc(op1) THEN Raise(s1, ExcName(op1))
     ELSE push_stack(s1, apply(operator_, op1, op2))

\* a stack wrapper that takes the left operand from the top of the stack
_operator_stack_command_swapped(operator_, s, ops) ==
  LET op1 == pop_value(s)
      s1  == pop_state(s)
      op2 == pop_value(s1)
      s2  == pop_state(s1)
  IN IF IsExc(op1) THEN Raise(s, ExcName(op1))
     ELSE IF IsExc(op2) THEN Raise(s1, ExcName(op2))
     ELSE push_stack(s2, apply(operator_, op1, op2))

_operator_stack_command(operator_, s, ops) ==
  LET op2 == pop_value(s)
      s1  == pop_state(s)
      op1 == pop_value(s1)
      s2  == pop_state(s1)
  IN IF IsExc(op2) THEN Raise(s, ExcName(op2))
     ELSE IF IsExc(op1) THEN Raise(s1, ExcName(op1))
     ELSE push_stack(s2, apply(operator_, op1, op2))

MOVE(s, ops) == move(s, ops[1], ops[2])

\* state.temp_frame.clear(): the frame object is emptied in place
CREATEFRAME(s, ops) ==
  Ok([s EXCEPT !.temp_frame = EmptyFrame,
               !.frame_stack = [i \in DOMAIN @ |->
                                  IF i \in s.shared THEN EmptyFrame ELSE @[i]]])

\* a PUSHFRAME that appends the temporary frame itself, not a copy of it
PUSHFRAME_alias(s, ops) ==
  Ok([s EXCEPT !.frame_stack = Append(@, s.temp_frame),
               !.shared = @ \cup {Len(s.frame_stack) + 1}])

\* a PUSHFRAME that pushes a fresh empty frame
PUSHFRAME_empty(s, ops) ==
  Ok([s EXCEPT !.frame_stack = Append(@, EmptyFrame)])

\* state.frame_stack.append(state.temp_frame.copy()): the copy is a frame
\* object of its own
PUSHFRAME(s, ops) == Ok([s EXCEPT !.frame_stack = Append(@, s.temp_frame)])

POPFRAME(s, ops) == pop_frame(s)

\* a DEFVAR that keeps the value of a variable that is already declared
DEFVAR_keep(s, ops) ==
  IF ops[1].kind = "var" /\ Declared(s, ops[1]) THEN Ok(s)
  ELSE set_value(s, ops[1], None)

DEFVAR(s, ops) == set_value(s, ops[1], None)

JUMP(s, ops) == jump(program, s, ops[1])

\* a CALL entry bound to State.jump
CALL_jump(s, ops) == jump(program, s, ops[1])

CALL(s, ops) == call(program, s, ops[1])

RETURN(s, ops) == return_(s)

LABEL(s, ops) == Ok(s)

JUMPIFEQ(s, ops) ==
  jump_if(program, s, ops[1], get_value(s, ops[2]), get_value(s, ops[3]), TRUE)

JUMPIFNEQ(s, ops) ==
  jump_if(program, s, ops[1], get_value(s, ops[2]), get_value(s, ops[3]), FALSE)

\* state.jump_if(op0, state.pop_stack(), state.pop_stack(), positive=True):
\* the arguments are evaluated left to right, so the value popped first is
\* the second argument of jump_if and the value popped second its third
JUMPIFEQS(s, ops) ==
  LET first  == pop_value(s)
      s1     == pop_state(s)
      second == pop_value(s1)
      s2     == pop_state(s1)
  IN IF IsExc(first) THEN Raise(s, ExcName(first))
     ELSE IF IsExc(second) THEN Raise(s1, ExcName(second))
     ELSE jump_if(program, s2, ops[1], first, second, TRUE)

\* a JUMPIFNEQS entry that passes positive=True
JUMPIFNEQS_positive(s, ops) == JUMPIFEQS(s, ops)

JUMPIFNEQS(s, ops) ==
  LET first  == pop_value(s)
      s1     == pop_state(s)
      second == pop_value(s1)
      s2     == pop_state(s1)
  IN IF IsExc(first) THEN Raise(s, ExcName(first))
     ELSE IF IsExc(second) THEN Raise(s1, ExcName(second))
     ELSE jump_if(program, s2, ops[1], first, second, FALSE)

PUSHS(s, ops) == push_stack(s, get_value(s, ops[1]))

POPS(s, ops) == pop_stack(s, ops[1])

CLEARS(s, ops) == Ok([s EXCEPT !.data_stack = <<>>])

NOT(s, ops) ==
  LET value == get_value(s, ops[2])
  IN IF IsExc(value) THEN Raise(s, ExcName(value))
     ELSE set_value(s, ops[1], not_(value))

NOTS(s, ops) ==
  LET value == pop_value(s)
  IN IF IsExc(value) THEN Raise(s, ExcName(value))
     ELSE push_stack(pop_state(s), not_(value))

TYPE(s, ops) ==
  LET value == get_value(s, ops[2])
  IN IF IsExc(value) THEN Raise(s, ExcName(value))
     ELSE set_value(s, ops[1],
                    IF value # None THEN CONSTANT_MAPPING_REVERSE(value)
                    ELSE StrV(<<>>))

\* the decimal digits of a natural number
RECURSIVE Digits(_)
Digits(n) ==
  IF n < 10
    THEN <<CASE n = 0 -> "0" [] n = 1 -> "1" [] n = 2 -> "2" [] n = 3 -> "3"
             [] n = 4 -> "4" [] n = 5 -> "5" [] n = 6 -> "6" [] n = 7 -> "7"
             [] n = 8 -> "8" [] n = 9 -> "9">>
    ELSE Digits(n \div 10) \o Digits(n % 10)

Sign(n) == IF n < 0 THEN <<"-">> ELSE <<>>

\* str(value): the text Python prints for a value; a float is written with
\* its fraction (the floats that are written have the denominators 1 and 2)
str_(v) ==
  CASE v.t = "nil" -> <<"N", "o", "n", "e">>
    [] v.t = "bool" -> IF v.n = 1 THEN <<"T", "r", "u", "e">>
                       ELSE <<"F", "a", "l", "s", "e">>
    [] v.t = "int" -> Sign(v.n) \o Digits(Abs(v.n))
    [] v.t = "str" -> v.s
    [] v.t = "float" /\ v.d = 1 -> Sign(v.n) \o Digits(Abs(v.n)) \o <<".", "0">>
    [] v.t = "float" /\ v.d = 2 ->
         Sign(v.n) \o Digits(Abs(v.n) \div 2) \o <<".", "5">>

\* the character an escape sequence stands for; an unknown escape stays
Escape(c) ==
  CASE c = "n" -> <<"\n">>
    [] c = "a" -> <<"BEL">>
    [] c = "b" -> <<"BS">>
    [] c = "\\" -> <<"\\">>
    [] OTHER -> <<"\\", c>>

\* a backslash that ends the text cannot be decoded
RECURSIVE Decodable(_)
Decodable(text) ==
  IF text = <<>> THEN TRUE
  ELSE IF Head(text) # "\\" THEN Decodable(Tail(text))
  ELSE Len(text) >= 2 /\ Decodable(Tail(Tail(text)))

RECURSIVE Decoded(_)
Decoded(text) ==
  IF text = <<>> THEN <<>>
  ELSE IF Head(text) # "\\" THEN <<Head(text)>> \o Decoded(Tail(text))
  ELSE Escape(text[2]) \o Decoded(Tail(Tail(text)))

\* codecs.decode(text, 'unicode_escape')
unicode_escape(text) ==
  IF Decodable(text) THEN StrV(Decoded(text)) ELSE Exc("UnicodeDecodeError")

\* state.stdout.write(text)
write(s, text) ==
  IF IsExc(text) THEN Raise(s, ExcName(text))
  ELSE Ok([s EXCEPT !.stdout = @ \o text.s])

WRITE(s, ops) ==
  LET value == get_value(s, ops[1])
  IN IF IsExc(value) THEN Raise(s, ExcName(value))
     ELSE write(s, unicode_escape(str_(value)))

\* a join that takes the text of whatever it is given
join_text(a, b) == StrV(a.s \o b.s)

\* ''.join((a, b)): every item has to be a str
join(a, b) ==
  IF a.t = "str" /\ b.t = "str" THEN StrV(a.s \o b.s) ELSE Exc("TypeError")

CONCAT(s, ops) ==
  LET a == get_value(s, ops[2])
      b == get_value(s, ops[3])
  IN IF IsExc(a) THEN Raise(s, ExcName(a))
     ELSE IF IsExc(b) THEN Raise(s, ExcName(b))
     ELSE set_result(s, ops[1], join(a, b))

\* len(x): the number of characters of a str; an object without a length,
\* as an Operand is, raises TypeError
len(x) ==
  IF "t" \in DOMAIN x /\ x.t = "str" THEN IntV(Len(x.s)) ELSE Exc("TypeError")

\* lambda state, target, string: state.set_value(target, len(string)): len
\* is applied to the operand itself
STRLEN(s, ops) == set_result(s, ops[1], len(ops[2]))

GETCHAR(s, ops) ==
  LET string == get_value(s, ops[2])
      index  == get_value(s, ops[3])
  IN IF IsExc(string) THEN Raise(s, ExcName(string))
     ELSE IF IsExc(index) THEN Raise(s, ExcName(index))
     ELSE set_result(s, ops[1], getitem(string, index))

STRI2INT(s, ops) ==
  LET what  == get_value(s, ops[2])
      index == get_value(s, ops[3])
  IN IF IsExc(what) THEN Raise(s, ExcName(what))
     ELSE IF IsExc(index) THEN Raise(s, ExcName(index))
     ELSE set_result(s, ops[1], ord_(getitem(what, index)))

\* float(value): a str that spells no number (every text of the programs
\* consists of letters) is a ValueError, None a TypeError
float_(v) ==
  CASE v.t \in {"int", "bool"} -> FloatV(v.n, 1)
    [] v.t = "float" -> v
    [] v.t = "str" -> Exc("ValueError")
    [] OTHER -> Exc("TypeError")

\* int(value): a float is truncated towards zero
int_(v) ==
  CASE v.t \in {"int", "bool"} -> IntV(v.n)
    [] v.t = "float" ->
         IntV(IF v.n >= 0 THEN v.n \div v.d ELSE -((-v.n) \div v.d))
    [] v.t = "str" -> Exc("ValueError")
    [] OTHER -> Exc("TypeError")

\* math.ceil(value) of a number
ceil(v) == IF IsNum(v) THEN IntV(-((-v.n) \div v.d)) ELSE Exc("TypeError")

\* math.ceil(value / 2.) * 2
ceil_half_times_2(v) ==
  LET half == truediv(v, FloatV(2, 1))
  IN IF IsExc(half) THEN half ELSE mul(ceil(half), IntV(2))

\* round(value): to the nearest integer, a tie to the even one
round(v) ==
  IF ~IsNum(v) THEN Exc("TypeError")
  ELSE LET floor == v.n \div v.d
           twice == 2 * (v.n - floor * v.d)
       IN IntV(CASE twice < v.d -> floor
                 [] twice > v.d -> floor + 1
                 [] OTHER -> IF floor % 2 = 0 THEN floor ELSE floor + 1)

\* the largest code point chr() takes
MaxCodePoint == 1114111

\* chr(value): the characters are a (97), b (98) and every other one (c)
chr(v) ==
  CASE v.t \notin {"int", "bool"} -> Exc("TypeError")
    [] v.n \notin 0..MaxCodePoint -> Exc("ValueError")
    [] v.n = 97 -> StrV(<<"a">>)
    [] v.n = 98 -> StrV(<<"b">>)
    [] OTHER -> StrV(<<"c">>)

INT2FLOAT(s, ops) ==
  LET value == get_value(s, ops[2])
  IN IF IsExc(value) THEN Raise(s, ExcName(value))
     ELSE set_result(s, ops[2], float_(value))

FLOAT2INT(s, ops) ==
  LET value == get_value(s, ops[2])
  IN IF IsExc(value) THEN Raise(s, ExcName(value))
     ELSE set_result(s, ops[2], int_(value))

FLOAT2R2EINT(s, ops) ==
  LET value == get_value(s, ops[2])
  IN IF IsExc(value) THEN Raise(s, ExcName(value))
     ELSE set_result(s, ops[1], ceil_half_times_2(value))

FLOAT2R2OINT(s, ops) ==
  LET value == get_value(s, ops[2])
  IN IF IsExc(value) THEN Raise(s, ExcName(value))
     ELSE set_result(s, ops[1], round(value))

INT2CHAR(s, ops) ==
  LET value == get_value(s, ops[2])
  IN IF IsExc(value) THEN Raise(s, ExcName(value))
     ELSE set_result(s, ops[1], chr(value))

INT2FLOATS(s, ops) ==
  LET value == pop_value(s)
  IN IF IsExc(value) THEN Raise(s, ExcName(value))
     ELSE push_stack(pop_state(s), float_(value))

FLOAT2INTS(s, ops) ==
  LET value == pop_value(s)
  IN IF IsExc(value) THEN Raise(s, ExcName(value))
     ELSE push_stack(pop_state(s), int_(value))

FLOAT2R2EINTS(s, ops) ==
  LET value == pop_value(s)
  IN IF IsExc(value) THEN Raise(s, ExcName(value))
     ELSE push_stack(pop_state(s), ceil_half_times_2(value))

FLOAT2R2OINTS(s, ops) ==
  LET value == pop_value(s)
  IN IF IsExc(value) THEN Raise(s, ExcName(value))
     ELSE push_stack(pop_state(s), round(value))

\* lambda state, to, what: state.push_stack(to, chr(state.pop_stack())):
\* the arguments are evaluated, then push_stack, which takes one value, is
\* called with two
INT2CHARS(s, ops) ==
  LET value == pop_value(s)
  IN IF IsExc(value) THEN Raise(s, ExcName(value))
     ELSE IF IsExc(chr(value)) THEN Raise(pop_state(s), ExcName(chr(value)))
     ELSE Raise(pop_state(s), "TypeError")

\* the keys of Instruction._commands
Mnemonics ==
  {"MOVE", "CREATEFRAME", "PUSHFRAME", "POPFRAME", "DEFVAR", "JUMP", "CALL",
   "RETURN", "LABEL", "JUMPIFEQ", "JUMPIFNEQ", "JUMPIFEQS", "JUMPIFNEQS",
   "WRITE", "PUSHS", "POPS", "CLEARS",
   "ADD", "SUB", "MUL", "DIV", "ADDS", "SUBS", "MULS", "DIVS",
   "LT", "GT", "EQ", "LTS", "GTS", "EQS",
   "AND", "OR", "NOT", "ANDS", "ORS", "NOTS",
   "READ", "TYPE", "BREAK", "DPRINT",
   "CONCAT", "STRLEN", "GETCHAR", "SETCHAR",
   "INT2FLOAT", "FLOAT2INT", "FLOAT2R2EINT", "FLOAT2R2OINT", "INT2CHAR",
   "STRI2INT", "INT2FLOATS", "FLOAT2INTS", "FLOAT2R2EINTS", "FLOAT2R2OINTS",
   "INT2CHARS", "STRI2INTS"}

NamedOperators ==
  [ADD |-> "add", SUB |-> "sub", MUL |-> "mul", DIV |-> "truediv",
   LT |-> "lt", GT |-> "gt", EQ |-> "eq", AND |-> "and_", OR |-> "or_"]

StackOperators ==
  [ADDS |-> "add", SUBS |-> "sub", MULS |-> "mul", DIVS |-> "truediv",
   LTS |-> "lt", GTS |-> "gt", EQS |-> "eq", ANDS |-> "and_", ORS |-> "or_"]

\* the number of operands each command's signature takes
Arity(name) ==
  CASE name \in {"CREATEFRAME", "PUSHFRAME", "POPFRAME", "RETURN", "CLEARS",
                 "BREAK", "NOTS", "INT2FLOATS", "FLOAT2INTS", "FLOAT2R2EINTS",
                 "FLOAT2R2OINTS", "STRI2INTS"}
         \cup DOMAIN StackOperators -> 0
    [] name \in {"DEFVAR", "JUMP", "CALL", "LABEL", "JUMPIFEQS", "JUMPIFNEQS",
                 "WRITE", "PUSHS", "POPS", "DPRINT"} -> 1
    [] name \in {"MOVE", "NOT", "READ", "TYPE", "STRLEN", "INT2FLOAT",
                 "FLOAT2INT", "FLOAT2R2EINT", "FLOAT2R2OINT", "INT2CHAR",
                 "INT2CHARS"} -> 2
    [] OTHER -> 3

\* Instruction._commands.get(name, _unknown_command)(state, *operands)
command(name, s, ops) ==
  IF name \notin Mnemonics THEN _unknown_command(s, ops)
  ELSE IF Len(ops) # Arity(name) THEN Raise(s, "TypeError")
  ELSE CASE name \in DOMAIN NamedOperators ->
              _operator_command(NamedOperators[name], s, ops)
         [] name \in DOMAIN StackOperators ->
              _operator_stack_command(StackOperators[name], s, ops)
         [] name = "MOVE" -> MOVE(s, ops)
         [] name = "CREATEFRAME" -> CREATEFRAME(s, ops)
         [] name = "PUSHFRAME" -> PUSHFRAME(s, ops)
         [] name = "POPFRAME" -> POPFRAME(s, ops)
         [] name = "DEFVAR" -> DEFVAR(s, ops)
         [] name = "JUMP" -> JUMP(s, ops)
         [] name = "CALL" -> CALL(s, ops)
         [] name = "RETURN" -> RETURN(s, ops)
         [] name = "LABEL" -> LABEL(s, ops)
         [] name = "JUMPIFEQ" -> JUMPIFEQ(s, ops)
         [] name = "JUMPIFNEQ" -> JUMPIFNEQ(s, ops)
         [] name = "JUMPIFEQS" -> JUMPIFEQS(s, ops)
         [] name = "JUMPIFNEQS" -> JUMPIFNEQS(s, ops)
         [] name = "PUSHS" -> PUSHS(s, ops)
         [] name = "POPS" -> POPS(s, ops)
         [] name = "CLEARS" -> CLEARS(s, ops)
         [] name = "NOT" -> NOT(s, ops)
         [] name = "NOTS" -> NOTS(s, ops)
         [] name = "TYPE" -> TYPE(s, ops)
         [] name = "CONCAT" -> CONCAT(s, ops)
         [] name = "STRLEN" -> STRLEN(s, ops)
         [] name = "GETCHAR" -> GETCHAR(s, ops)
         [] name = "STRI2INT" -> STRI2INT(s, ops)
         [] name = "WRITE" -> WRITE(s, ops)
         [] name = "INT2FLOAT" -> INT2FLOAT(s, ops)
         [] name = "FLOAT2INT" -> FLOAT2INT(s, ops)
         [] name = "FLOAT2R2EINT" -> FLOAT2R2EINT(s, ops)
         [] name = "FLOAT2R2OINT" -> FLOAT2R2OINT(s, ops)
         [] name = "INT2CHAR" -> INT2CHAR(s, ops)
         [] name = "INT2FLOATS" -> INT2FLOATS(s, ops)
         [] name = "FLOAT2INTS" -> FLOAT2INTS(s, ops)
         [] name = "FLOAT2R2EINTS" -> FLOAT2R2EINTS(s, ops)
         [] name = "FLOAT2R2OINTS" -> FLOAT2R2OINTS(s, ops)
         [] name = "INT2CHARS" -> INT2CHARS(s, ops)

\* InstructionPrices.INSTRUCTIONS (prices.py): the static price of every
\* mnemonic of the dispatch table
INSTRUCTIONS(name) == IntV(1 + Arity(name))

\* InstructionPrices.INSTRUCTIONS.get(self.name): None for a mnemonic the
\* table does not have
INSTRUCTIONS_get(name) ==
  IF name \in Mnemonics THEN INSTRUCTIONS(name) ELSE None

\* state.instruction_price += price; state.executed_instructions += 1
account(out, total) ==
  IF IsExc(total) THEN [out EXCEPT !.exc = ExcName(total)]
  ELSE [out EXCEPT !.state.instruction_price = total.n,
                   !.state.executed_instructions = @ + 1]

\* the part of Instruction.run after the command was called: an exception
\* of the command leaves run before the accounting
after_command(out, price) ==
  IF out.exc # "none" THEN out
  ELSE account(out, add(IntV(out.state.instruction_price), price))

\* Instruction.run: look the command and the price up, call the command,
\* then account for it
run(self, s) ==
  after_command(command(self.name, s, self.ops), INSTRUCTIONS_get(self.name))

(***************************************************************************)
(* The programs the interpreter is run on.                                 *)
(***************************************************************************)
Ints == {IntV(i) : i \in -MaxInt..MaxInt}

Floats == {FloatV(0, 1), FloatV(3, 2), FloatV(-5, 2)}

Strs == {StrV(<<>>), StrV(<<"a">>), StrV(<<"a", "b">>)}

Bools == {BoolV(TRUE), BoolV(FALSE)}

Values == Ints \cup Floats \cup Strs \cup Bools \cup {None}

I0(name) == Instruction(name, <<>>)

I1(name, a) == Instruction(name, <<a>>)

I2(name, a, b) == Instruction(name, <<a, b>>)

I3(name, a, b, c) == Instruction(name, <<a, b, c>>)

SeqsUpTo(alphabet, n) == UNION {[1..k -> alphabet] : k \in 1..n}

\* control flow: every program over two labels, calls, a jump and RETURN
ControlAlphabet ==
  {I1("LABEL", Label("f")), I1("LABEL", Label("g")),
   I1("CALL", Label("f")), I1("CALL", Label("g")),
   I1("JUMP", Label("g")), I0("RETURN")}

ControlPrograms ==
  {p \in SeqsUpTo(ControlAlphabet, MaxCtlLen) : NoDuplicateLabels(p)}

\* a label that calls itself n times before its RETURNs unwind
RecursivePrograms ==
  {<<I1("DEFVAR", Var("GF", "n")),
     I2("MOVE", Var("GF", "n"), Const(IntV(n))),
     I1("CALL", Label("f")),
     I1("JUMP", Label("end")),
     I1("LABEL", Label("f")),
     I3("JUMPIFEQ", Label("ret"), Var("GF", "n"), Const(IntV(0))),
     I3("SUB", Var("GF", "n"), Var("GF", "n"), Const(IntV(1))),
     I1("CALL", Label("f")),
     I1("LABEL", Label("ret")),
     I0("RETURN"),
     I1("LABEL", Label("end"))>> : n \in 0..MaxDepth}

\* frames: every program over the frame instructions and writes to
\* temporary and local variables
FrameAlphabet ==
  {I0("CREATEFRAME"), I0("PUSHFRAME"), I0("POPFRAME"),
   I1("DEFVAR", Var("TF", "x")),
   I2("MOVE", Var("TF", "x"), Const(IntV(1))),
   I1("DEFVAR", Var("LF", "y")),
   I2("MOVE", Var("LF", "y"), Const(BoolV(TRUE)))}

FramePrograms == SeqsUpTo(FrameAlphabet, MaxFrameLen)

\* named three-operand instructions on every pair of values: destination
\* declared, never declared, and a source read from a variable
Named3 == DOMAIN NamedOperators \cup {"CONCAT", "GETCHAR", "STRI2INT"}

Named2 == {"NOT", "TYPE", "MOVE"}

NamedPrograms ==
  UNION {
    {<<I1("DEFVAR", Var("GF", "d")),
       I3(op, Var("GF", "d"), Const(l), Const(r))>>,
     <<I3(op, Var("GF", "u"), Const(l), Const(r))>>,
     <<I1("DEFVAR", Var("GF", "a")),
       I2("MOVE", Var("GF", "a"), Const(l)),
       I3(op, Var("GF", "a"), Var("GF", "a"), Const(r))>>}
    : op \in Named3, l \in Values, r \in Values}
  \cup UNION {
    {<<I1("DEFVAR", Var("GF", "d")),
       I2(op, Var("GF", "d"), Const(l))>>,
     <<I2(op, Var("GF", "u"), Const(l))>>,
     <<I1("CREATEFRAME", Var("GF", "d"))>>,
     <<I0("PUSHFRAME"), I2(op, Var("LF", "u"), Const(l))>>}
    : op \in Named2, l \in Values}

\* stack instructions on every pair of values, on short stacks as well
StackPrograms ==
  UNION {
    {<<I1("PUSHS", Const(l)), I1("PUSHS", Const(r)), I0(op)>>,
     <<I1("PUSHS", Const(BoolV(TRUE))), I1("PUSHS", Const(l)),
       I1("PUSHS", Const(r)), I0(op)>>,
     <<I1("PUSHS", Const(l)), I0(op)>>,
     <<I0(op)>>}
    : op \in DOMAIN StackOperators, l \in Values, r \in Values}
  \cup UNION {
    {<<I1("PUSHS", Const(l)), I0("NOTS")>>,
     <<I1("PUSHS", Const(l)), I1("POPS", Var("GF", "u"))>>,
     <<I1("DEFVAR", Var("GF", "d")), I1("PUSHS", Const(l)),
       I1("POPS", Var("GF", "d")), I0("CLEARS")>>}
    : l \in Values}

\* the two scenarios: 5 + 3 through variables, and 10 - 3 on the stack
ScenarioPrograms ==
  {<<I1("DEFVAR", Var("GF", "x")),
     I2("MOVE", Var("GF", "x"), Const(IntV(5))),
     I1("DEFVAR", Var("GF", "y")),
     I2("MOVE", Var("GF", "y"), Const(IntV(3))),
     I3("ADD", Var("GF", "x"), Var("GF", "x"), Var("GF", "y"))>>,
   <<I1("DEFVAR", Var("GF", "r")),
     I1("PUSHS", Const(IntV(10))),
     I1("PUSHS", Const(IntV(3))),
     I0("SUBS"),
     I1("POPS", Var("GF", "r"))>>}

\* instructions whose mnemonic the dispatch table does not have
UnknownPrograms ==
  UNION {
    {<<I1("PUSHS", Const(l)), I0(name), I1("PUSHS", Const(l))>>,
     <<I1("DEFVAR", Var("TF", "x")), I0("PUSHFRAME"),
       I2(name, Var("TF", "x"), Const(l)), I0("POPFRAME")>>}
    : name \in {"NOP", "EXIT"}, l \in Values}

\* output: a variable of every frame written right after its declaration,
\* after a write, and after a declaration that follows a write; constants
\* and texts with escape sequences
Escapes ==
  {StrV(<<"a", "\\", "n">>), StrV(<<"\\", "\\", "b">>), StrV(<<"\\", "a">>),
   StrV(<<"\\", "b">>), StrV(<<"a", "\\">>)}

WriteVars == {Var("GF", "x"), Var("TF", "x"), Var("LF", "x")}

WritePrograms ==
  UNION {
    {<<I0("PUSHFRAME"), I1("DEFVAR", x), I1("WRITE", x)>>,
     <<I0("PUSHFRAME"), I1("DEFVAR", x), I2("MOVE", x, Const(v)),
       I1("WRITE", x)>>,
     <<I0("PUSHFRAME"), I1("DEFVAR", x), I2("MOVE", x, Const(v)),
       I1("DEFVAR", x), I1("WRITE", x), I1("WRITE", x)>>,
     <<I1("WRITE", Const(v)), I1("WRITE", x)>>}
    : x \in WriteVars, v \in Values \cup Escapes}

\* three strings concatenated in both groupings: x = (a b) c, y = a (b c)
ConcatStrs == Strs \cup {StrV(<<"b">>)}

ConcatPrograms ==
  {<<I1("DEFVAR", Var("GF", "x")),
     I1("DEFVAR", Var("GF", "y")),
     I3("CONCAT", Var("GF", "x"), Const(a), Const(b)),
     I3("CONCAT", Var("GF", "x"), Var("GF", "x"), Const(c)),
     I3("CONCAT", Var("GF", "y"), Const(b), Const(c)),
     I3("CONCAT", Var("GF", "y"), Const(a), Var("GF", "y"))>>
   : a \in ConcatStrs, b \in ConcatStrs, c \in ConcatStrs}

\* conversions: every named form with a constant and with a variable as
\* its source, every stack form on a stack of one and of two values, on an
\* empty stack, and INT2CHARS with the two operands of its signature
NamedConversions ==
  {"INT2FLOAT", "FLOAT2INT", "FLOAT2R2EINT", "FLOAT2R2OINT", "INT2CHAR"}

StackConversions ==
  {"INT2FLOATS", "FLOAT2INTS", "FLOAT2R2EINTS", "FLOAT2R2OINTS", "INT2CHARS"}

ConversionValues ==
  Values \cup {FloatV(5, 2), FloatV(7, 2), FloatV(-1, 2), FloatV(2, 1),
               IntV(97), IntV(98), IntV(MaxCodePoint + 1)}

ConversionPrograms ==
  UNION {
    {<<I1("DEFVAR", Var("GF", "d")), I2(op, Var("GF", "d"), Const(v))>>,
     <<I1("DEFVAR", Var("GF", "d")), I1("DEFVAR", Var("GF", "s")),
       I2("MOVE", Var("GF", "s"), Const(v)),
       I2(op, Var("GF", "d"), Var("GF", "s"))>>}
    : op \in NamedConversions, v \in ConversionValues}
  \cup UNION {
    {<<I1("PUSHS", Const(v)), I0(op)>>,
     <<I1("PUSHS", Const(BoolV(TRUE))), I1("PUSHS", Const(v)), I0(op)>>,
     <<I0(op)>>,
     <<I1("DEFVAR", Var("GF", "d")), I1("PUSHS", Const(v)),
       I2("INT2CHARS", Var("GF", "d"), Const(v))>>}
    : op \in StackConversions, v \in ConversionValues}

\* conditional jumps over one instruction: the stack forms on every pair of
\* values above a third one and on a stack of one value, the named forms
\* on the same pairs
JumpPrograms ==
  UNION {
    {<<I1("PUSHS", Const(BoolV(TRUE))), I1("PUSHS", Const(l)),
       I1("PUSHS", Const(r)), I1(op, Label("end")),
       I1("PUSHS", Const(IntV(1))), I1("LABEL", Label("end"))>>,
     <<I1("PUSHS", Const(l)), I1(op, Label("end")),
       I1("PUSHS", Const(IntV(1))), I1("LABEL", Label("end"))>>}
    : op \in {"JUMPIFEQS", "JUMPIFNEQS"}, l \in Values, r \in Values}
  \cup {<<I3(op, Label("end"), Const(l), Const(r)),
          I1("PUSHS", Const(IntV(1))), I1("LABEL", Label("end"))>>
         : op \in {"JUMPIFEQ", "JUMPIFNEQ"}, l \in Values, r \in Values}

\* STRLEN of every value, as a constant and as the value of a variable
StrlenPrograms ==
  UNION {
    {<<I1("DEFVAR", Var("GF", "d")), I2("STRLEN", Var("GF", "d"), Const(v))>>,
     <<I1("DEFVAR", Var("GF", "d")), I1("DEFVAR", Var("GF", "s")),
       I2("MOVE", Var("GF", "s"), Const(v)),
       I2("STRLEN", Var("GF", "d"), Var("GF", "s"))>>}
    : v \in Values}

(***************************************************************************)
(* The interpreter loop.  hist keeps the last two executed instructions    *)
(* with the state each started in; pending keeps, for every CALL that has  *)
(* not returned, its index and the call stack it found.                    *)
(***************************************************************************)
NoStep == [instr |-> I0(""), pre |-> InitState, pend |-> <<>>]

Init ==
  /\ \/ program \in ControlPrograms
     \/ program \in RecursivePrograms
     \/ program \in FramePrograms
     \/ program \in NamedPrograms
     \/ program \in StackPrograms
     \/ program \in ScenarioPrograms
     \/ program \in UnknownPrograms
     \/ program \in WritePrograms
     \/ program \in ConcatPrograms
     \/ program \in ConversionPrograms
     \/ program \in JumpPrograms
     \/ program \in StrlenPrograms
  /\ state = InitState
  /\ fault = "none"
  /\ hist = <<NoStep, NoStep>>
  /\ pending = <<>>

Running ==
  /\ fault = "none"
  /\ state.program_counter \in 1..Len(program)
  /\ state.executed_instructions < MaxSteps

Fetch == program[state.program_counter]

\* the loop after Instruction.run: advance the pointer unless the command
\* redirected it or raised
Advance(instr, out) ==
  /\ fault' = out.exc
  /\ state' = IF out.exc = "none" /\ ~out.redirected
                THEN [out.state EXCEPT !.program_counter = @ + 1]
                ELSE out.state
  /\ hist' = <<hist[2], [instr |-> instr, pre |-> state, pend |-> pending]>>
  /\ pending' =
       CASE instr.name = "CALL" /\ out.exc = "none" ->
              Append(pending, [at |-> state.program_counter,
                               cs |-> state.call_stack])
         [] instr.name = "RETURN" /\ pending # <<>> -> Pop(pending)
         [] OTHER -> pending
  /\ UNCHANGED program

\* one turn of the loop: run the instruction at the pointer
Execute == Advance(Fetch, run(Fetch, state))

FrameMnemonics == {"MOVE", "CREATEFRAME", "PUSHFRAME", "POPFRAME", "DEFVAR"}

ControlMnemonics ==
  {"JUMP", "CALL", "RETURN", "LABEL", "JUMPIFEQ", "JUMPIFNEQ", "JUMPIFEQS",
   "JUMPIFNEQS"}

StackMnemonics == {"PUSHS", "POPS", "CLEARS"}

ArithmeticMnemonics ==
  {"ADD", "SUB", "MUL", "DIV", "ADDS", "SUBS", "MULS", "DIVS"}

RelationalMnemonics == {"LT", "GT", "EQ", "LTS", "GTS", "EQS"}

LogicalMnemonics == {"AND", "OR", "NOT", "ANDS", "ORS", "NOTS"}

StringMnemonics == {"TYPE", "CONCAT", "STRLEN", "GETCHAR", "STRI2INT"}

OutputMnemonics == {"WRITE"}

RunFrame == Running /\ Fetch.name \in FrameMnemonics /\ Execute

RunControl == Running /\ Fetch.name \in ControlMnemonics /\ Execute

RunStack == Running /\ Fetch.name \in StackMnemonics /\ Execute

RunArithmetic == Running /\ Fetch.name \in ArithmeticMnemonics /\ Execute

RunRelational == Running /\ Fetch.name \in RelationalMnemonics /\ Execute

RunLogical == Running /\ Fetch.name \in LogicalMnemonics /\ Execute

RunString == Running /\ Fetch.name \in StringMnemonics /\ Execute

RunOutput == Running /\ Fetch.name \in OutputMnemonics /\ Execute

RunConversion ==
  Running /\ Fetch.name \in NamedConversions \cup StackConversions /\ Execute

RunUnknown == Running /\ Fetch.name \notin Mnemonics /\ Execute

Next ==
  \/ RunFrame
  \/ RunControl
  \/ RunStack
  \/ RunArithmetic
  \/ RunRelational
  \/ RunLogical
  \/ RunString
  \/ RunOutput
  \/ RunConversion
  \/ RunUnknown

Spec == Init /\ [][Next]_vars

Last == hist[2]

Prev == hist[1]

TypeOK ==
  /\ program # <<>>
  /\ fault \in {"none", "TypeError", "KeyError", "IndexError",
                "ZeroDivisionError", "ValueError", "UnicodeDecodeError"}
  /\ state.program_counter \in 1..(Len(program) + 1)
  /\ Len(state.call_stack) = Len(pending) \/ fault # "none"

(***************************************************************************)
(* Properties.                                                             *)
(***************************************************************************)
Ran(names) == Last.instr.name \in names

Frames(s) == <<s.global_frame, s.temp_frame, s.frame_stack>>

Names(s) ==
  <<DOMAIN s.global_frame, DOMAIN s.temp_frame,
    [i \in 1..Len(s.frame_stack) |-> DOMAIN s.frame_stack[i]]>>

\* C1: a RETURN that matches a CALL executed at index i resumes at i + 1
\* with the call stack that CALL found, at any nesting depth and for a
\* label that calls itself; a RETURN on an empty call stack is a fault.
C1_ReturnResumesAfterCall ==
  Ran({"RETURN"}) =>
    /\ Last.pre.call_stack = <<>> => fault # "none"
    /\ Last.pend # <<>> =>
         /\ fault = "none"
         /\ state.program_counter = Top(Last.pend).at + 1
         /\ state.call_stack = Top(Last.pend).cs

\* a RETURN of a self-call made from inside the same self-call
C1_Witness ==
  /\ Ran({"RETURN"})
  /\ fault = "none"
  /\ Len(Last.pend) >= 3
  /\ Last.pend[Len(Last.pend)].at = Last.pend[Len(Last.pend) - 1].at
  /\ program[Top(Last.pend).at].ops[1].name = "f"
  /\ LabelIndex(program, "f") < Top(Last.pend).at

\* C2: PUSHFRAME followed immediately by POPFRAME leaves the temporary
\* frame with the bindings it had before the PUSHFRAME, and the local-frame
\* stack as it was.
C2_PushPopRestoresFrames ==
  (Prev.instr.name = "PUSHFRAME" /\ Ran({"POPFRAME"})) =>
    /\ fault = "none"
    /\ state.temp_frame = Prev.pre.temp_frame
    /\ state.frame_stack = Prev.pre.frame_stack

C2_Witness ==
  /\ Prev.instr.name = "PUSHFRAME"
  /\ Ran({"POPFRAME"})
  /\ Prev.pre.frame_stack # <<>>
  /\ DOMAIN Prev.pre.temp_frame # {}
  /\ state.temp_frame = Prev.pre.temp_frame

\* the value the named form writes to its destination when its sources
\* resolve to left and right (an exception when it raises)
NamedResult(name, left, right) ==
  LET d   == Var("GF", "d")
      out == _operator_command(NamedOperators[name],
                               store(InitState, d, None),
                               <<d, Const(left), Const(right)>>)
  IN IF out.exc # "none" THEN Exc(out.exc) ELSE get_value(out.state, d)

StackForm(name) == CHOOSE m \in DOMAIN StackOperators :
                     StackOperators[m] = NamedOperators[name]

WellTyped(left, right) == left.t = right.t /\ left.t \in {"int", "float"}

\* C3: for ADD, SUB and MUL, the stack form run on a stack whose two top
\* values are left (below) and right (on top), both of one numeric type,
\* leaves on top the value the named form writes for sources left and
\* right; 10 and 3 under SUBS give 7.
C3_StackFormMatchesNamedForm ==
  \A name \in {"ADD", "SUB", "MUL"} :
    LET stack == Last.pre.data_stack
    IN (/\ Ran({StackForm(name)})
        /\ Len(stack) >= 2
        /\ WellTyped(stack[Len(stack) - 1], Top(stack))) =>
         /\ fault = "none"
         /\ state.data_stack # <<>>
         /\ ~IsExc(NamedResult(name, stack[Len(stack) - 1], Top(stack)))
         /\ Top(state.data_stack)
              = NamedResult(name, stack[Len(stack) - 1], Top(stack))
         /\ (name = "SUB" /\ stack = <<IntV(10), IntV(3)>>)
              => Top(state.data_stack) = IntV(7)

C3_Witness ==
  /\ Ran({"SUBS"})
  /\ Last.pre.data_stack = <<IntV(10), IntV(3)>>
  /\ state.data_stack = <<IntV(7)>>
  /\ fault = "none"

\* C4: an instruction whose mnemonic the dispatch table does not have
\* runs without a fault, leaves frames and stacks as they were, and the
\* next instruction is executed.
C4_UnknownInstructionContinues ==
  (Last.instr.name # "" /\ Last.instr.name \notin Mnemonics) =>
    /\ fault = "none"
    /\ Frames(state) = Frames(Last.pre)
    /\ state.data_stack = Last.pre.data_stack
    /\ state.call_stack = Last.pre.call_stack
    /\ state.program_counter = Last.pre.program_counter + 1

\* the instructions whose first operand is a destination
Writers == Named3 \cup Named2 \cup {"POPS"}

WritesUndeclared ==
  /\ Ran(Writers)
  /\ Len(Last.instr.ops) >= 1
  /\ Last.instr.ops[1].kind = "var"
  /\ HasFrame(Last.pre, Last.instr.ops[1])
  /\ ~Declared(Last.pre, Last.instr.ops[1])

IsZero(v) == v.t \in {"int", "float"} /\ v.n = 0

FrameValues(f) == {f[n] : n \in DOMAIN f}

StoredValues(s) ==
  FrameValues(s.global_frame) \cup FrameValues(s.temp_frame)
    \cup UNION {FrameValues(s.frame_stack[i]) : i \in 1..Len(s.frame_stack)}
    \cup {s.data_stack[i] : i \in 1..Len(s.data_stack)}

\* C6: DIV and DIVS with a right-hand operand equal to zero, integer or
\* float, fault: nothing is written or pushed, and no infinite or undefined
\* number is stored anywhere.
C6_DivisionByZeroFaults ==
  /\ (Ran({"DIV"}) /\ Len(Last.instr.ops) = 3
        /\ IsZero(get_value(Last.pre, Last.instr.ops[3]))) =>
       /\ fault # "none"
       /\ Frames(state) = Frames(Last.pre)
       /\ state.data_stack = Last.pre.data_stack
  /\ (Ran({"DIVS"}) /\ Len(Last.pre.data_stack) >= 2
        /\ IsZero(Top(Last.pre.data_stack))) =>
       /\ fault # "none"
       /\ Frames(state) = Frames(Last.pre)
       /\ state.data_stack = Pop(Pop(Last.pre.data_stack))
  /\ \A v \in StoredValues(state) : v.d > 0

\* DIV of 1 by 0.0 into a declared variable, and DIVS of 2 by 0
C6_Witness ==
  \/ /\ Ran({"DIV"})
     /\ Last.instr.ops = <<Var("GF", "d"), Const(IntV(1)), Const(FloatV(0, 1))>>
     /\ Declared(Last.pre, Var("GF", "d"))
     /\ fault = "ZeroDivisionError"
  \/ /\ Ran({"DIVS"})
     /\ Last.pre.data_stack = <<IntV(2), IntV(0)>>
     /\ fault = "ZeroDivisionError"

\* the two operand values of the last instruction: the sources of a named
\* form, the two top cells of the stack for a stack form
HasOperands ==
  IF Len(Last.instr.ops) = 3
    THEN /\ ~IsExc(get_value(Last.pre, Last.instr.ops[2]))
         /\ ~IsExc(get_value(Last.pre, Last.instr.ops[3]))
    ELSE Len(Last.instr.ops) = 0 /\ Len(Last.pre.data_stack) >= 2

Left ==
  IF Len(Last.instr.ops) = 3 THEN get_value(Last.pre, Last.instr.ops[2])
  ELSE Last.pre.data_stack[Len(Last.pre.data_stack) - 1]

Right ==
  IF Len(Last.instr.ops) = 3 THEN get_value(Last.pre, Last.instr.ops[3])
  ELSE Top(Last.pre.data_stack)

\* C7: ADD, SUB, MUL, DIV and their stack forms fault when their two
\* operand values are of different types.
C7_ArithmeticTypeMismatchFaults ==
  (Ran(ArithmeticMnemonics) /\ HasOperands /\ Left.t # Right.t) =>
    fault # "none"

\* the operand values of a logical instruction: one for NOT and NOTS
LogicalOperands ==
  CASE Ran({"NOT"}) /\ Len(Last.instr.ops) = 2 ->
         {get_value(Last.pre, Last.instr.ops[2])}
    [] Ran({"NOTS"}) /\ Last.pre.data_stack # <<>> ->
         {Top(Last.pre.data_stack)}
    [] Ran({"AND", "OR", "ANDS", "ORS"}) /\ HasOperands -> {Left, Right}
    [] OTHER -> {}

\* C8: AND, OR, NOT and their stack forms fault when an operand value is
\* not a Boolean; no result is written or pushed.
C8_LogicalNonBooleanFaults ==
  (Ran(LogicalMnemonics)
     /\ \E v \in LogicalOperands : ~IsExc(v) /\ v.t # "bool") =>
    /\ fault # "none"
    /\ Frames(state) = Frames(Last.pre)

\* C9: LT, GT, EQ and their stack forms fault when one of the two compared
\* values is a String and the other a number.
C9_RelationalTypeMismatchFaults ==
  (Ran(RelationalMnemonics) /\ HasOperands
     /\ \/ Left.t = "str" /\ IsNum(Right)
        \/ IsNum(Left) /\ Right.t = "str") =>
    fault # "none"

\* C10: GETCHAR and STRI2INT fault for every index outside
\* 0..len(string)-1, negative ones included, and leave the destination
\* as it was.
C10_IndexOutOfRangeFaults ==
  (Ran({"GETCHAR", "STRI2INT"}) /\ HasOperands
     /\ Left.t = "str" /\ Right.t = "int"
     /\ Right.n \notin 0..(Len(Left.s) - 1)) =>
    /\ fault # "none"
    /\ Frames(state) = Frames(Last.pre)

\* C11: right after DEFVAR of a variable the variable holds Nil, also when
\* the DEFVAR redeclares a variable that held a value, and a WRITE of it
\* with no write in between appends the text None to the output without a
\* fault.
C11_DefvarThenWriteEmitsNil ==
  /\ (Ran({"DEFVAR"}) /\ fault = "none") =>
       get_value(state, Last.instr.ops[1]) = None
  /\ (Ran({"WRITE"}) /\ Prev.instr.name = "DEFVAR"
         /\ Prev.instr.ops = Last.instr.ops) =>
       /\ fault = "none"
       /\ state.stdout = Last.pre.stdout \o <<"N", "o", "n", "e">>
       /\ get_value(state, Last.instr.ops[1]) = None

\* a WRITE of a variable whose redeclaration replaced a value
C11_Witness ==
  /\ Ran({"WRITE"})
  /\ Prev.instr.name = "DEFVAR"
  /\ Prev.instr.ops = Last.instr.ops
  /\ Declared(Prev.pre, Last.instr.ops[1])
  /\ get_value(Prev.pre, Last.instr.ops[1]) = StrV(<<"a", "b">>)
  /\ Last.instr.ops[1].frame = "LF"
  /\ state.stdout = <<"N", "o", "n", "e">>

\* C12: CONCAT with a source value that is not a String faults and leaves
\* every frame, the destination included, as it was; concatenating a with
\* b and the result with c gives the destination the same value as
\* concatenating a with the result of b and c.
C12_ConcatFaultsAndAssociates ==
  /\ (Ran({"CONCAT"}) /\ HasOperands
        /\ (Left.t # "str" \/ Right.t # "str")) =>
       /\ fault # "none"
       /\ Frames(state) = Frames(Last.pre)
  /\ (program \in ConcatPrograms
        /\ state.program_counter > Len(program)) =>
       /\ fault = "none"
       /\ state.global_frame["x"] = state.global_frame["y"]
       /\ state.global_frame["x"] =
            StrV(program[3].ops[2].val.s \o program[3].ops[3].val.s
                   \o program[4].ops[3].val.s)

\* both groupings of three non-empty strings have run to the end
C12_Witness ==
  /\ program \in ConcatPrograms
  /\ state.program_counter > Len(program)
  /\ state.global_frame["y"] = StrV(<<"a", "b", "b", "a">>)
  /\ Ran({"CONCAT"})

\* what a conversion mnemonic, named or stack form, computes from a value
Converted(name, v) ==
  CASE name \in {"INT2FLOAT", "INT2FLOATS"} -> float_(v)
    [] name \in {"FLOAT2INT", "FLOAT2INTS"} -> int_(v)
    [] name \in {"FLOAT2R2EINT", "FLOAT2R2EINTS"} -> ceil_half_times_2(v)
    [] name \in {"FLOAT2R2OINT", "FLOAT2R2OINTS"} -> round(v)
    [] name \in {"INT2CHAR", "INT2CHARS"} -> chr(v)

\* the last instruction had a declared destination and a source, another
\* operand, that resolves to a value
WritesFromSource ==
  /\ Len(Last.instr.ops) = 2
  /\ Last.instr.ops[1].kind = "var"
  /\ Declared(Last.pre, Last.instr.ops[1])
  /\ Last.instr.ops[1] # Last.instr.ops[2]
  /\ ~IsExc(get_value(Last.pre, Last.instr.ops[2]))

\* ... and the conversion is defined on that value
ConvertsSource ==
  /\ WritesFromSource
  /\ ~IsExc(Converted(Last.instr.name, get_value(Last.pre, Last.instr.ops[2])))

\* C13: INT2FLOAT and FLOAT2INT, like FLOAT2R2EINT and INT2CHAR, write the
\* converted value of their second operand into their first operand and
\* leave a source variable as it was; the source may be a constant.
C13_NamedConversionsWriteDestination ==
  (Ran({"INT2FLOAT", "FLOAT2INT", "FLOAT2R2EINT", "INT2CHAR"})
     /\ ConvertsSource) =>
    /\ fault = "none"
    /\ get_value(state, Last.instr.ops[1]) =
         Converted(Last.instr.name, get_value(Last.pre, Last.instr.ops[2]))
    /\ get_value(state, Last.instr.ops[2]) =
         get_value(Last.pre, Last.instr.ops[2])

\* C14: a stack-form conversion without operands, run on a stack whose top
\* the conversion is defined on (for INT2CHARS a valid code point), does
\* not fault and replaces the top by the converted value, so the depth of
\* the stack is unchanged.
C14_StackConversionsKeepDepth ==
  (Ran(StackConversions) /\ Last.instr.ops = <<>>
     /\ Last.pre.data_stack # <<>>
     /\ ~IsExc(Converted(Last.instr.name, Top(Last.pre.data_stack)))) =>
    /\ fault = "none"
    /\ Len(state.data_stack) = Len(Last.pre.data_stack)
    /\ Pop(state.data_stack) = Pop(Last.pre.data_stack)
    /\ Top(state.data_stack) =
         Converted(Last.instr.name, Top(Last.pre.data_stack))

\* the named conditional jump with the decision of a stack form
NamedJump(name) == IF name = "JUMPIFEQS" THEN "JUMPIFEQ" ELSE "JUMPIFNEQ"

\* C15: JUMPIFEQS and JUMPIFNEQS run on a stack of two or more values pop
\* exactly two; with the value popped first as the right and the value
\* popped second as the left operand they fault, jump or fall through as
\* JUMPIFEQ / JUMPIFNEQ do on operands with these two values: without a
\* fault the pointer is at the label iff the values are (not) equal.
C15_StackJumpsDecideAsNamedJumps ==
  (Ran({"JUMPIFEQS", "JUMPIFNEQS"}) /\ Len(Last.instr.ops) = 1
     /\ Len(Last.pre.data_stack) >= 2) =>
    LET stack  == Last.pre.data_stack
        right  == stack[Len(stack)]
        left   == stack[Len(stack) - 1]
        popped == [Last.pre EXCEPT !.data_stack = SubSeq(stack, 1, Len(stack) - 2)]
        named  == command(NamedJump(Last.instr.name), popped,
                          <<Last.instr.ops[1], Const(left), Const(right)>>)
    IN /\ state.data_stack = popped.data_stack
       /\ fault = named.exc
       /\ fault = "none" =>
            /\ (state.program_counter = LabelIndex(program, "end"))
                 = named.redirected
            /\ named.redirected =
                 ((left = right) = (Last.instr.name = "JUMPIFEQS"))

\* JUMPIFNEQS found 1 below 2 above a third value and jumped
C15_Witness ==
  /\ Ran({"JUMPIFNEQS"})
  /\ Last.pre.data_stack = <<BoolV(TRUE), IntV(1), IntV(2)>>
  /\ state.data_stack = <<BoolV(TRUE)>>
  /\ fault = "none"
  /\ state.program_counter = LabelIndex(program, "end")
  /\ state.program_counter # Last.pre.program_counter + 1

\* what FLOAT2R2EINT leaves in a fresh destination, and FLOAT2R2EINTS on a
\* stack that holds x alone
R2EYield(name, x) ==
  IF name = "FLOAT2R2EINT"
    THEN get_value(command(name, store(InitState, Var("GF", "d"), None),
                           <<Var("GF", "d"), Const(x)>>).state,
                   Var("GF", "d"))
    ELSE Top(command(name, [InitState EXCEPT !.data_stack = <<x>>],
                     <<>>).state.data_stack)

\* the last instruction was a FLOAT2R2EINT with a declared destination or a
\* FLOAT2R2EINTS on a stack that is not empty
R2ERan ==
  \/ /\ Ran({"FLOAT2R2EINT"})
     /\ ConvertsSource
  \/ /\ Ran({"FLOAT2R2EINTS"})
     /\ Last.instr.ops = <<>>
     /\ Last.pre.data_stack # <<>>

R2EInput ==
  IF Ran({"FLOAT2R2EINT"}) THEN get_value(Last.pre, Last.instr.ops[2])
  ELSE Top(Last.pre.data_stack)

R2EResult ==
  IF Ran({"FLOAT2R2EINT"}) THEN get_value(state, Last.instr.ops[1])
  ELSE Top(state.data_stack)

\* C16: for an Integer or Float x, FLOAT2R2EINT and FLOAT2R2EINTS yield an
\* even integer that no other even integer is nearer to x than (2.5 yields
\* 2, 3.5 yields 4), and both forms yield the same result for x.
C16_RoundsToNearestEven ==
  (R2ERan /\ R2EInput.t \in {"int", "float"}) =>
    /\ fault = "none"
    /\ R2EResult.t = "int"
    /\ R2EResult.n % 2 = 0
    /\ Abs(R2EResult.n * R2EInput.d - R2EInput.n) <= R2EInput.d
    /\ R2EResult = R2EYield("FLOAT2R2EINT", R2EInput)
    /\ R2EResult = R2EYield("FLOAT2R2EINTS", R2EInput)

\* C17: a binary stack-form instruction run on a stack of fewer than two
\* values faults and pushes nothing; run on a stack of n >= 2 values whose
\* top two the operator is defined on, it leaves n - 1 values, the lowest
\* n - 2 of them unchanged.
C17_BinaryStackFormDepth ==
  (Ran(DOMAIN StackOperators) /\ Last.instr.ops = <<>>) =>
    LET before == Last.pre.data_stack
        after  == state.data_stack
        n      == Len(before)
    IN /\ n < 2 =>
            /\ fault # "none"
            /\ Len(after) <= n
            /\ after = SubSeq(before, 1, Len(after))
       /\ (n >= 2 /\ ~IsExc(apply(StackOperators[Last.instr.name],
                                   before[n - 1], before[n]))) =>
            /\ fault = "none"
            /\ Len(after) = n - 1
            /\ SubSeq(after, 1, n - 2) = SubSeq(before, 1, n - 2)

\* SUBS on a stack of three values left two, the lower one untouched
C17_Witness ==
  /\ Ran({"SUBS"})
  /\ Last.pre.data_stack = <<BoolV(TRUE), IntV(2), IntV(1)>>
  /\ state.data_stack = <<BoolV(TRUE), IntV(1)>>
  /\ fault = "none"

\* C18: STRLEN whose source operand, a constant or a variable, resolves to
\* a String writes the number of characters of that String, the empty one
\* included, into its declared destination.
C18_StrlenWritesLength ==
  (Ran({"STRLEN"}) /\ WritesFromSource
     /\ get_value(Last.pre, Last.instr.ops[2]).t = "str") =>
    /\ fault = "none"
    /\ get_value(state, Last.instr.ops[1]) =
         IntV(Len(get_value(Last.pre, Last.instr.ops[2]).s))

\* the last instruction cleared the temporary frame or had a variable of it
\* as its destination
TouchesTempFrame ==
  \/ Ran({"CREATEFRAME"})
  \/ /\ Ran(Writers \cup {"DEFVAR"})
     /\ Len(Last.instr.ops) >= 1
     /\ Last.instr.ops[1].kind = "var"
     /\ Last.instr.ops[1].frame = "TF"

\* C19: no frame of the local-frame stack is the object the temporary frame
\* is, whatever CREATEFRAME, PUSHFRAME, POPFRAME and writes came before;
\* CREATEFRAME and an instruction whose destination is a temporary-frame
\* variable leave every frame of the local-frame stack and the global
\* frame as they were.
C19_TempFrameNotShared ==
  /\ state.shared = {}
  /\ TouchesTempFrame =>
       /\ state.frame_stack = Last.pre.frame_stack
       /\ state.global_frame = Last.pre.global_frame

\* a write to the temporary frame after PUSHFRAME copied it: the pushed
\* frame still holds what it held, the temporary frame the new value
C19_Witness ==
  /\ Ran({"MOVE"})
  /\ Last.instr.ops[1] = Var("TF", "x")
  /\ Prev.instr.name = "PUSHFRAME"
  /\ fault = "none"
  /\ state.frame_stack = <<[n \in {"x"} |-> None]>>
  /\ state.temp_frame = [n \in {"x"} |-> IntV(1)]

\* the frames, the stacks and the instruction pointer of a state
Machine(s) ==
  <<Frames(s), s.data_stack, s.call_stack, s.program_counter>>

\* the state with other values in its two counters
Recounted(s) ==
  [s EXCEPT !.instruction_price = @ + 1, !.executed_instructions = @ + 2]

\* C20: when the command of an instruction returns, Instruction.run has
\* increased the executed-instruction counter by one and the cost counter
\* by the price of the mnemonic; when the command faults both counters are
\* as they were; and with other values in the counters the command leaves
\* the same frames, stacks and pointer.
C20_CountersFollowCompletion ==
  Last.instr.name # "" =>
    /\ command(Last.instr.name, Last.pre, Last.instr.ops).exc = "none" =>
         /\ state.executed_instructions = Last.pre.executed_instructions + 1
         /\ Last.instr.name \in Mnemonics =>
              state.instruction_price =
                Last.pre.instruction_price + INSTRUCTIONS(Last.instr.name).n
    /\ command(Last.instr.name, Last.pre, Last.instr.ops).exc # "none" =>
         /\ state.executed_instructions = Last.pre.executed_instructions
         /\ state.instruction_price = Last.pre.instruction_price
    /\ Machine(run(Last.instr, Recounted(Last.pre)).state) =
         Machine(run(Last.instr, Last.pre).state)
    /\ run(Last.instr, Recounted(Last.pre)).exc = fault

====
